---------------------------- MODULE Spec2Model ----------------------------
(***************************************************************************)
(* Model of scripts/controller.py of greeMan: the asyncio main task, the   *)
(* temperature_control_loop task, the signal handler and the remote air    *)
(* conditioner reached through greeclimate's Device; and of                *)
(* scripts/test.py: its main task, its periodic_sync task and its          *)
(* example_control_loop task (variables and actions prefixed t_).          *)
(*                                                                         *)
(* Temperatures are in tenths of a degree Celsius (24.0 -> 240), times of  *)
(* day in seconds since midnight, "HH:MM" strings are sequences of         *)
(* one-character strings.                                                  *)
(***************************************************************************)
EXTENDS Integers, Sequences, FiniteSets, TLC

VARIABLES
    running,         \* controller.py global `running`
    current_state,   \* controller.py global `current_state` (the belief)
    device,          \* the Device object's local properties
    actuator,        \* the state of the remote air conditioner
    mainpc,          \* position of main()
    pc,              \* position of the temperature_control_loop task
    config,          \* local `config` of the loop
    temp_on,         \* local `temp_on`
    temp_off,        \* local `temp_off`
    current_temp,    \* local `current_temp`
    actual_power,    \* local `actual_power`
    time_restricted, \* local `time_restricted`
    cyc,             \* history of the current cycle
    prev,            \* history of the cycle before it
    disc,            \* history of discover_and_bind
    scen,            \* history of the first cycles of the run
    t_running,       \* test.py global `running`
    t_current_state, \* test.py global `current_state`
    t_device,        \* test.py: the Device object's local properties
    t_actuator,      \* test.py: the state of the remote air conditioner
    t_mainpc,        \* test.py: position of main()
    t_syncpc,        \* test.py: position of the periodic_sync task
    t_ctlpc,         \* test.py: position of the example_control_loop task
    t_new_power,     \* test.py: local `new_power` of example_control_loop
    t_read,          \* test.py: the update_state() call in flight
    t_push,          \* test.py: the push_state_update() call in flight
    t_done           \* test.py: the sync or push that ended last succeeded

cvars == <<running, current_state, device, actuator, mainpc, pc, config,
           temp_on, temp_off, current_temp, actual_power, time_restricted,
           cyc, prev, disc, scen>>

tvars == <<t_running, t_current_state, t_device, t_actuator, t_mainpc,
           t_syncpc, t_ctlpc, t_new_power, t_read, t_push, t_done>>

vars == <<cvars, tvars>>

(***************************************************************************)
(* Bounds and value sets                                                   *)
(***************************************************************************)
None == -1

\* The readings get_snmp_temperature returns: 22.5 and the whole degrees
\* from 22.0 to 22.0 + MaxDegrees.
MaxDegrees == 3

Readings == {225} \cup { 220 + 10 * k : k \in 0..MaxDegrees }

TimeOfDay(h, m, s) == (h * 60 + m) * 60 + s

\* What datetime.datetime.now().time() returns.
ClockTimes == { TimeOfDay(10, 0, 0),  TimeOfDay(12, 0, 0),
                TimeOfDay(13, 0, 0),  TimeOfDay(14, 0, 0),
                TimeOfDay(15, 0, 0),  TimeOfDay(21, 0, 0),
                TimeOfDay(23, 0, 0) }

HHMM(a, b, c, d) == <<a, b, ":", c, d>>

\* The most devices Discovery().scan() finds.
MaxDevices == 2

(***************************************************************************)
(* load_config                                                             *)
(***************************************************************************)
DefaultConfig ==
    [ temperature_on  |-> 240,
      temperature_off |-> 225,
      restricted_time |-> [ start |-> HHMM("2", "1", "0", "0"),
                            end   |-> HHMM("1", "0", "0", "0") ] ]

Cfg(on, off, s, e) ==
    [ temperature_on  |-> on,
      temperature_off |-> off,
      restricted_time |-> [ start |-> s, end |-> e ] ]

\* Contents of ac_config.json that json.load accepts; the third one has the
\* times written "9:5" and, with ARABIC-INDIC DIGIT FIVE, "1\\u0665:00".
JsonConfigs ==
    { Cfg(240, 225, HHMM("2", "1", "0", "0"), HHMM("1", "0", "0", "0")),
      Cfg(250, 230, HHMM("1", "3", "0", "0"), HHMM("1", "5", "0", "0")),
      Cfg(225, 240, <<"9", ":", "5">>, HHMM("1", "\\u0665", "0", "0")),
      Cfg(240, 225, HHMM("2", "5", "0", "0"), HHMM("1", "0", "0", "0")),
      Cfg(240, 225, HHMM("2", "1", "0", "0"), <<"1", "0", ":", "6", "0">>),
      [ temperature_off |-> 225,
        restricted_time |-> [ start |-> HHMM("2", "1", "0", "0"),
                              end   |-> HHMM("1", "0", "0", "0") ] ],
      [ temperature_on  |-> 240, temperature_off |-> 225 ] }

\* What open()/json.load meet: a missing file, text that is not JSON, or JSON.
ConfigFiles ==
    { [ kind |-> "unreadable", value |-> DefaultConfig ],
      [ kind |-> "malformed",  value |-> DefaultConfig ] }
    \cup { [ kind |-> "json", value |-> c ] : c \in JsonConfigs }

\* Faulty variant: the fallback has the target temperature 22.0 for
\* temperature_off.
load_config_other_defaults(file) ==
    IF file.kind = "json" THEN file.value
    ELSE [ DefaultConfig EXCEPT !.temperature_off = 220 ]

load_config(file) ==
    IF file.kind = "json" THEN file.value ELSE DefaultConfig

(***************************************************************************)
(* datetime.strptime(s, "%H:%M").time()                                    *)
(***************************************************************************)
\* A string is a sequence of characters; an ASCII character is written as
\* itself and any other one as Python's ascii() writes it, "\\u0662" for
\* ARABIC-INDIC DIGIT TWO, "\\U0001d7ce" for MATHEMATICAL BOLD DIGIT ZERO.
\*
\* DecimalDigits[v + 1] holds the characters \d matches in a str pattern and
\* int() reads as v: the decimal digits (category Nd) of Unicode 14.0.
DecimalDigits ==
    <<
      { "0", "\\u0660", "\\u06f0", "\\u07c0", "\\u0966", "\\u09e6",
        "\\u0a66", "\\u0ae6", "\\u0b66", "\\u0be6", "\\u0c66",
        "\\u0ce6", "\\u0d66", "\\u0de6", "\\u0e50", "\\u0ed0",
        "\\u0f20", "\\u1040", "\\u1090", "\\u17e0", "\\u1810",
        "\\u1946", "\\u19d0", "\\u1a80", "\\u1a90", "\\u1b50",
        "\\u1bb0", "\\u1c40", "\\u1c50", "\\ua620", "\\ua8d0",
        "\\ua900", "\\ua9d0", "\\ua9f0", "\\uaa50", "\\uabf0",
        "\\uff10", "\\U000104a0", "\\U00010d30", "\\U00011066",
        "\\U000110f0", "\\U00011136", "\\U000111d0", "\\U000112f0",
        "\\U00011450", "\\U000114d0", "\\U00011650", "\\U000116c0",
        "\\U00011730", "\\U000118e0", "\\U00011950", "\\U00011c50",
        "\\U00011d50", "\\U00011da0", "\\U00016a60", "\\U00016ac0",
        "\\U00016b50", "\\U0001d7ce", "\\U0001d7d8", "\\U0001d7e2",
        "\\U0001d7ec", "\\U0001d7f6", "\\U0001e140", "\\U0001e2f0",
        "\\U0001e950", "\\U0001fbf0" },
      { "1", "\\u0661", "\\u06f1", "\\u07c1", "\\u0967", "\\u09e7",
        "\\u0a67", "\\u0ae7", "\\u0b67", "\\u0be7", "\\u0c67",
        "\\u0ce7", "\\u0d67", "\\u0de7", "\\u0e51", "\\u0ed1",
        "\\u0f21", "\\u1041", "\\u1091", "\\u17e1", "\\u1811",
        "\\u1947", "\\u19d1", "\\u1a81", "\\u1a91", "\\u1b51",
        "\\u1bb1", "\\u1c41", "\\u1c51", "\\ua621", "\\ua8d1",
        "\\ua901", "\\ua9d1", "\\ua9f1", "\\uaa51", "\\uabf1",
        "\\uff11", "\\U000104a1", "\\U00010d31", "\\U00011067",
        "\\U000110f1", "\\U00011137", "\\U000111d1", "\\U000112f1",
        "\\U00011451", "\\U000114d1", "\\U00011651", "\\U000116c1",
        "\\U00011731", "\\U000118e1", "\\U00011951", "\\U00011c51",
        "\\U00011d51", "\\U00011da1", "\\U00016a61", "\\U00016ac1",
        "\\U00016b51", "\\U0001d7cf", "\\U0001d7d9", "\\U0001d7e3",
        "\\U0001d7ed", "\\U0001d7f7", "\\U0001e141", "\\U0001e2f1",
        "\\U0001e951", "\\U0001fbf1" },
      { "2", "\\u0662", "\\u06f2", "\\u07c2", "\\u0968", "\\u09e8",
        "\\u0a68", "\\u0ae8", "\\u0b68", "\\u0be8", "\\u0c68",
        "\\u0ce8", "\\u0d68", "\\u0de8", "\\u0e52", "\\u0ed2",
        "\\u0f22", "\\u1042", "\\u1092", "\\u17e2", "\\u1812",
        "\\u1948", "\\u19d2", "\\u1a82", "\\u1a92", "\\u1b52",
        "\\u1bb2", "\\u1c42", "\\u1c52", "\\ua622", "\\ua8d2",
        "\\ua902", "\\ua9d2", "\\ua9f2", "\\uaa52", "\\uabf2",
        "\\uff12", "\\U000104a2", "\\U00010d32", "\\U00011068",
        "\\U000110f2", "\\U00011138", "\\U000111d2", "\\U000112f2",
        "\\U00011452", "\\U000114d2", "\\U00011652", "\\U000116c2",
        "\\U00011732", "\\U000118e2", "\\U00011952", "\\U00011c52",
        "\\U00011d52", "\\U00011da2", "\\U00016a62", "\\U00016ac2",
        "\\U00016b52", "\\U0001d7d0", "\\U0001d7da", "\\U0001d7e4",
        "\\U0001d7ee", "\\U0001d7f8", "\\U0001e142", "\\U0001e2f2",
        "\\U0001e952", "\\U0001fbf2" },
      { "3", "\\u0663", "\\u06f3", "\\u07c3", "\\u0969", "\\u09e9",
        "\\u0a69", "\\u0ae9", "\\u0b69", "\\u0be9", "\\u0c69",
        "\\u0ce9", "\\u0d69", "\\u0de9", "\\u0e53", "\\u0ed3",
        "\\u0f23", "\\u1043", "\\u1093", "\\u17e3", "\\u1813",
        "\\u1949", "\\u19d3", "\\u1a83", "\\u1a93", "\\u1b53",
        "\\u1bb3", "\\u1c43", "\\u1c53", "\\ua623", "\\ua8d3",
        "\\ua903", "\\ua9d3", "\\ua9f3", "\\uaa53", "\\uabf3",
        "\\uff13", "\\U000104a3", "\\U00010d33", "\\U00011069",
        "\\U000110f3", "\\U00011139", "\\U000111d3", "\\U000112f3",
        "\\U00011453", "\\U000114d3", "\\U00011653", "\\U000116c3",
        "\\U00011733", "\\U000118e3", "\\U00011953", "\\U00011c53",
        "\\U00011d53", "\\U00011da3", "\\U00016a63", "\\U00016ac3",
        "\\U00016b53", "\\U0001d7d1", "\\U0001d7db", "\\U0001d7e5",
        "\\U0001d7ef", "\\U0001d7f9", "\\U0001e143", "\\U0001e2f3",
        "\\U0001e953", "\\U0001fbf3" },
      { "4", "\\u0664", "\\u06f4", "\\u07c4", "\\u096a", "\\u09ea",
        "\\u0a6a", "\\u0aea", "\\u0b6a", "\\u0bea", "\\u0c6a",
        "\\u0cea", "\\u0d6a", "\\u0dea", "\\u0e54", "\\u0ed4",
        "\\u0f24", "\\u1044", "\\u1094", "\\u17e4", "\\u1814",
        "\\u194a", "\\u19d4", "\\u1a84", "\\u1a94", "\\u1b54",
        "\\u1bb4", "\\u1c44", "\\u1c54", "\\ua624", "\\ua8d4",
        "\\ua904", "\\ua9d4", "\\ua9f4", "\\uaa54", "\\uabf4",
        "\\uff14", "\\U000104a4", "\\U00010d34", "\\U0001106a",
        "\\U000110f4", "\\U0001113a", "\\U000111d4", "\\U000112f4",
        "\\U00011454", "\\U000114d4", "\\U00011654", "\\U000116c4",
        "\\U00011734", "\\U000118e4", "\\U00011954", "\\U00011c54",
        "\\U00011d54", "\\U00011da4", "\\U00016a64", "\\U00016ac4",
        "\\U00016b54", "\\U0001d7d2", "\\U0001d7dc", "\\U0001d7e6",
        "\\U0001d7f0", "\\U0001d7fa", "\\U0001e144", "\\U0001e2f4",
        "\\U0001e954", "\\U0001fbf4" },
      { "5", "\\u0665", "\\u06f5", "\\u07c5", "\\u096b", "\\u09eb",
        "\\u0a6b", "\\u0aeb", "\\u0b6b", "\\u0beb", "\\u0c6b",
        "\\u0ceb", "\\u0d6b", "\\u0deb", "\\u0e55", "\\u0ed5",
        "\\u0f25", "\\u1045", "\\u1095", "\\u17e5", "\\u1815",
        "\\u194b", "\\u19d5", "\\u1a85", "\\u1a95", "\\u1b55",
        "\\u1bb5", "\\u1c45", "\\u1c55", "\\ua625", "\\ua8d5",
        "\\ua905", "\\ua9d5", "\\ua9f5", "\\uaa55", "\\uabf5",
        "\\uff15", "\\U000104a5", "\\U00010d35", "\\U0001106b",
        "\\U000110f5", "\\U0001113b", "\\U000111d5", "\\U000112f5",
        "\\U00011455", "\\U000114d5", "\\U00011655", "\\U000116c5",
        "\\U00011735", "\\U000118e5", "\\U00011955", "\\U00011c55",
        "\\U00011d55", "\\U00011da5", "\\U00016a65", "\\U00016ac5",
        "\\U00016b55", "\\U0001d7d3", "\\U0001d7dd", "\\U0001d7e7",
        "\\U0001d7f1", "\\U0001d7fb", "\\U0001e145", "\\U0001e2f5",
        "\\U0001e955", "\\U0001fbf5" },
      { "6", "\\u0666", "\\u06f6", "\\u07c6", "\\u096c", "\\u09ec",
        "\\u0a6c", "\\u0aec", "\\u0b6c", "\\u0bec", "\\u0c6c",
        "\\u0cec", "\\u0d6c", "\\u0dec", "\\u0e56", "\\u0ed6",
        "\\u0f26", "\\u1046", "\\u1096", "\\u17e6", "\\u1816",
        "\\u194c", "\\u19d6", "\\u1a86", "\\u1a96", "\\u1b56",
        "\\u1bb6", "\\u1c46", "\\u1c56", "\\ua626", "\\ua8d6",
        "\\ua906", "\\ua9d6", "\\ua9f6", "\\uaa56", "\\uabf6",
        "\\uff16", "\\U000104a6", "\\U00010d36", "\\U0001106c",
        "\\U000110f6", "\\U0001113c", "\\U000111d6", "\\U000112f6",
        "\\U00011456", "\\U000114d6", "\\U00011656", "\\U000116c6",
        "\\U00011736", "\\U000118e6", "\\U00011956", "\\U00011c56",
        "\\U00011d56", "\\U00011da6", "\\U00016a66", "\\U00016ac6",
        "\\U00016b56", "\\U0001d7d4", "\\U0001d7de", "\\U0001d7e8",
        "\\U0001d7f2", "\\U0001d7fc", "\\U0001e146", "\\U0001e2f6",
        "\\U0001e956", "\\U0001fbf6" },
      { "7", "\\u0667", "\\u06f7", "\\u07c7", "\\u096d", "\\u09ed",
        "\\u0a6d", "\\u0aed", "\\u0b6d", "\\u0bed", "\\u0c6d",
        "\\u0ced", "\\u0d6d", "\\u0ded", "\\u0e57", "\\u0ed7",
        "\\u0f27", "\\u1047", "\\u1097", "\\u17e7", "\\u1817",
        "\\u194d", "\\u19d7", "\\u1a87", "\\u1a97", "\\u1b57",
        "\\u1bb7", "\\u1c47", "\\u1c57", "\\ua627", "\\ua8d7",
        "\\ua907", "\\ua9d7", "\\ua9f7", "\\uaa57", "\\uabf7",
        "\\uff17", "\\U000104a7", "\\U00010d37", "\\U0001106d",
        "\\U000110f7", "\\U0001113d", "\\U000111d7", "\\U000112f7",
        "\\U00011457", "\\U000114d7", "\\U00011657", "\\U000116c7",
        "\\U00011737", "\\U000118e7", "\\U00011957", "\\U00011c57",
        "\\U00011d57", "\\U00011da7", "\\U00016a67", "\\U00016ac7",
        "\\U00016b57", "\\U0001d7d5", "\\U0001d7df", "\\U0001d7e9",
        "\\U0001d7f3", "\\U0001d7fd", "\\U0001e147", "\\U0001e2f7",
        "\\U0001e957", "\\U0001fbf7" },
      { "8", "\\u0668", "\\u06f8", "\\u07c8", "\\u096e", "\\u09ee",
        "\\u0a6e", "\\u0aee", "\\u0b6e", "\\u0bee", "\\u0c6e",
        "\\u0cee", "\\u0d6e", "\\u0dee", "\\u0e58", "\\u0ed8",
        "\\u0f28", "\\u1048", "\\u1098", "\\u17e8", "\\u1818",
        "\\u194e", "\\u19d8", "\\u1a88", "\\u1a98", "\\u1b58",
        "\\u1bb8", "\\u1c48", "\\u1c58", "\\ua628", "\\ua8d8",
        "\\ua908", "\\ua9d8", "\\ua9f8", "\\uaa58", "\\uabf8",
        "\\uff18", "\\U000104a8", "\\U00010d38", "\\U0001106e",
        "\\U000110f8", "\\U0001113e", "\\U000111d8", "\\U000112f8",
        "\\U00011458", "\\U000114d8", "\\U00011658", "\\U000116c8",
        "\\U00011738", "\\U000118e8", "\\U00011958", "\\U00011c58",
        "\\U00011d58", "\\U00011da8", "\\U00016a68", "\\U00016ac8",
        "\\U00016b58", "\\U0001d7d6", "\\U0001d7e0", "\\U0001d7ea",
        "\\U0001d7f4", "\\U0001d7fe", "\\U0001e148", "\\U0001e2f8",
        "\\U0001e958", "\\U0001fbf8" },
      { "9", "\\u0669", "\\u06f9", "\\u07c9", "\\u096f", "\\u09ef",
        "\\u0a6f", "\\u0aef", "\\u0b6f", "\\u0bef", "\\u0c6f",
        "\\u0cef", "\\u0d6f", "\\u0def", "\\u0e59", "\\u0ed9",
        "\\u0f29", "\\u1049", "\\u1099", "\\u17e9", "\\u1819",
        "\\u194f", "\\u19d9", "\\u1a89", "\\u1a99", "\\u1b59",
        "\\u1bb9", "\\u1c49", "\\u1c59", "\\ua629", "\\ua8d9",
        "\\ua909", "\\ua9d9", "\\ua9f9", "\\uaa59", "\\uabf9",
        "\\uff19", "\\U000104a9", "\\U00010d39", "\\U0001106f",
        "\\U000110f9", "\\U0001113f", "\\U000111d9", "\\U000112f9",
        "\\U00011459", "\\U000114d9", "\\U00011659", "\\U000116c9",
        "\\U00011739", "\\U000118e9", "\\U00011959", "\\U00011c59",
        "\\U00011d59", "\\U00011da9", "\\U00016a69", "\\U00016ac9",
        "\\U00016b59", "\\U0001d7d7", "\\U0001d7e1", "\\U0001d7eb",
        "\\U0001d7f5", "\\U0001d7ff", "\\U0001e149", "\\U0001e2f9",
        "\\U0001e959", "\\U0001fbf9" }
    >>

DigitValue ==
    [ c \in UNION { DecimalDigits[i] : i \in 1..10 } |->
        (CHOOSE i \in 1..10 : c \in DecimalDigits[i]) - 1 ]

IsDigits(s) == \A i \in 1..Len(s) : s[i] \in DOMAIN DigitValue

\* int() of a field of one or two digits.
NumberOf(s) ==
    IF Len(s) = 1 THEN DigitValue[s[1]]
    ELSE DigitValue[s[1]] * 10 + DigitValue[s[2]]

\* The directive %H, (?P<H>2[0-3]|[0-1]\d|\d): the classes written out match
\* ASCII digits only, \d matches every decimal digit.
regex_H(h) ==
    \/ Len(h) = 2 /\ h[1] = "2" /\ h[2] \in {"0", "1", "2", "3"}
    \/ Len(h) = 2 /\ h[1] \in {"0", "1"} /\ IsDigits(<<h[2]>>)
    \/ Len(h) = 1 /\ IsDigits(h)

\* The directive %M, (?P<M>[0-5]\d|\d).
regex_M(m) ==
    \/ Len(m) = 2 /\ m[1] \in {"0", "1", "2", "3", "4", "5"}
                  /\ IsDigits(<<m[2]>>)
    \/ Len(m) = 1 /\ IsDigits(m)

\* The positions of ":" that split s into an hour field and a minute field
\* the directives %H and %M accept.
SplitPoints(s) ==
    { i \in 1..Len(s) :
        /\ s[i] = ":"
        /\ regex_H(SubSeq(s, 1, i - 1))
        /\ regex_M(SubSeq(s, i + 1, Len(s))) }

\* None stands for the ValueError strptime raises.
strptime(s) ==
    IF SplitPoints(s) = {} THEN None
    ELSE LET i == CHOOSE j \in SplitPoints(s) : TRUE
         IN  TimeOfDay(NumberOf(SubSeq(s, 1, i - 1)),
                       NumberOf(SubSeq(s, i + 1, Len(s))), 0)

(***************************************************************************)
(* is_time_restricted                                                      *)
(***************************************************************************)
\* KeyError on a missing field, ValueError on a field strptime rejects.
is_time_restricted_raises(cfg) ==
    \/ "restricted_time" \notin DOMAIN cfg
    \/ "start" \notin DOMAIN cfg.restricted_time
    \/ strptime(cfg.restricted_time.start) = None
    \/ "end" \notin DOMAIN cfg.restricted_time
    \/ strptime(cfg.restricted_time.end) = None

\* Faulty variant: the overnight window tested like a same-day one.
is_time_restricted_no_wrap(cfg, t) ==
    LET start_time == strptime(cfg.restricted_time.start)
        end_time   == strptime(cfg.restricted_time.end)
    IN  start_time <= t /\ t <= end_time

is_time_restricted(cfg, t) ==
    LET start_time == strptime(cfg.restricted_time.start)
        end_time   == strptime(cfg.restricted_time.end)
    IN  IF start_time > end_time
        THEN t >= start_time \/ t <= end_time
        ELSE start_time <= t /\ t <= end_time

(***************************************************************************)
(* The decision of lines 177-187 of temperature_control_loop               *)
(***************************************************************************)
\* Faulty variants of the decision.
decide_on_in_window(temp, on, off, power, restricted) ==
    IF temp > on /\ ~power THEN "TurnOn"
    ELSE IF (temp < off \/ restricted) /\ power THEN "TurnOff"
    ELSE "NoChange"

decide_off_forgets_window(temp, on, off, power, restricted) ==
    IF temp > on /\ ~power /\ ~restricted THEN "TurnOn"
    ELSE IF temp < off /\ power THEN "TurnOff"
    ELSE "NoChange"

decide_not_strict(temp, on, off, power, restricted) ==
    IF temp >= on /\ ~power /\ ~restricted THEN "TurnOn"
    ELSE IF (temp <= off \/ restricted) /\ power THEN "TurnOff"
    ELSE "NoChange"

decide_swapped_thresholds(temp, on, off, power, restricted) ==
    IF temp > off /\ ~power /\ ~restricted THEN "TurnOn"
    ELSE IF (temp < on \/ restricted) /\ power THEN "TurnOff"
    ELSE "NoChange"

decide(temp, on, off, power, restricted) ==
    IF temp > on /\ ~power /\ ~restricted THEN "TurnOn"
    ELSE IF (temp < off \/ restricted) /\ power THEN "TurnOff"
    ELSE "NoChange"

(***************************************************************************)
(* The state after the module is imported and main() has registered the    *)
(* signal handlers                                                         *)
(***************************************************************************)
Unbound == [ unbound |-> TRUE ]

NoCycle ==
    [ belief0  |-> FALSE,    \* current_state['power'] when the cycle began
      waited   |-> None,     \* seconds slept between the cycle before and
                             \*   this one, None before the first cycle
      slept    |-> 0,        \* seconds of asyncio.sleep begun in this cycle
      pushes   |-> 0,        \* calls of push_state_update() in this cycle
      load     |-> "none",   \* load_config(): none, read (json.load
                             \*   returned), failed (open or json.load raised)
      sensor   |-> "none",   \* get_snmp_temperature(): none, ok, fault
      update   |-> "none",   \* device.update_state(): none, inflight
                             \*   (sent), replied (answered by the air
                             \*   conditioner), ok, failed, cancelled
      reported |-> FALSE,    \* the power in the air conditioner's answer,
                             \*   device.power once update_state returned
      decision |-> "none",   \* branch taken at lines 177-187
      now      |-> None,     \* the clock is_time_restricted read (line 130)
      pushed   |-> "none",   \* push_state_update() invoked with power on/off
      push     |-> "none" ]  \* its progress: none, inflight (sent),
                             \*   applied (taken by the air conditioner),
                             \*   ok, failed, cancelled

NoPrev ==
    [ valid |-> FALSE, temp |-> None, on |-> None, off |-> None,
      power |-> FALSE, restricted |-> FALSE, decision |-> "none",
      push |-> "none" ]

\* The scenario followed from the start of the run: the default thresholds
\* and window, the clock at 14:00, the readings 25.0, 23.0 and 22.0, every
\* call succeeding and the air conditioner reporting the belief's power.
ScenarioConfig == DefaultConfig

ScenarioClock == TimeOfDay(14, 0, 0)

ScenarioReadings == <<250, 230, 220>>

scenario_matches(s, cfg, t, temp, c) ==
    /\ Len(s.decisions) < Len(ScenarioReadings)
    /\ cfg = ScenarioConfig
    /\ t = ScenarioClock
    /\ temp = ScenarioReadings[Len(s.decisions) + 1]
    /\ c.update = "ok" /\ c.reported = c.belief0

\* scans: calls of Discovery().scan(); first_failed: the scan raised, found
\* nothing, or the bind of the first device found raised.
NoDiscovery == [ scans |-> 0, first_failed |-> FALSE ]

\* The cycles of the run so far, as long as they are the ones of the
\* scenario below: the decision of each and the belief's power after each.
NoScenario == [ live |-> FALSE, decisions |-> <<>>, beliefs |-> <<>> ]

\* The history after a cycle started, read its sensor, decided, and had
\* its push answered.
scen_cycle_start(s) ==
    IF Len(s.decisions) = Len(ScenarioReadings) THEN NoScenario ELSE s

scen_sensor(s, r) == IF r = None THEN NoScenario ELSE s

scen_decided(s, matches, d, belief) ==
    IF ~s.live \/ ~matches THEN NoScenario
    ELSE [ s EXCEPT !.decisions = Append(@, d),
                    !.beliefs = IF d = "NoChange" THEN Append(@, belief)
                                ELSE @ ]

scen_pushed(s, ok, belief) ==
    IF ~s.live \/ ~ok THEN NoScenario
    ELSE [ s EXCEPT !.beliefs = Append(@, belief) ]

\* test.py after import: lines 16-21; no call is in flight.
NoCall == [ phase |-> "none", power |-> FALSE ]

\* The names of the members of greeclimate's Mode.
ModeNames == {"Auto", "Cool", "Dry", "Fan", "Heat"}

t_Init ==
    /\ t_running = TRUE
    /\ t_current_state = [ power |-> FALSE, temp |-> 250, mode |-> "cool" ]
    /\ t_device = [ power |-> FALSE, mode |-> "Unknown",
                    target_temperature |-> None ]
    /\ t_actuator \in [ power : BOOLEAN, mode : ModeNames,
                        target_temperature : {250} ]
    /\ t_mainpc = "discover"
    /\ t_syncpc = "not_created"
    /\ t_ctlpc = "not_created"
    /\ t_new_power = FALSE
    /\ t_read = NoCall
    /\ t_push = NoCall
    /\ t_done = FALSE

\* controller.py after import: lines 33-37.
c_Init ==
    /\ running = TRUE
    /\ current_state = [ power |-> FALSE, target_temp |-> 220 ]
    /\ device = [ power |-> FALSE, mode |-> "Unknown",
                  target_temperature |-> None ]
    /\ actuator \in [ power : BOOLEAN, mode : {"Heat"},
                      target_temperature : {250} ]
    /\ mainpc = "discover"
    /\ pc = "not_created"
    /\ config = Unbound
    /\ temp_on = None
    /\ temp_off = None
    /\ current_temp = None
    /\ actual_power = FALSE
    /\ time_restricted = FALSE
    /\ cyc = NoCycle
    /\ prev = NoPrev
    /\ disc = NoDiscovery
    /\ scen = [ NoScenario EXCEPT !.live = TRUE ]

\* controller.py is started; test.py is not.
Init == c_Init /\ t_Init /\ ~t_actuator.power /\ t_actuator.mode = "Heat"

\* Line 143: the default of the parameter check_interval, which main does
\* not pass.
check_interval == 60

\* Faulty variant: the wait is doubled after a sensor fault.
wait_after_backs_off(outcome) ==
    IF outcome = "sensor_fault" THEN 2 * check_interval ELSE check_interval

\* Lines 156 and 189: the seconds slept after a cycle that ended in
\* sensor_fault, no_change, pushed or push_failed.
wait_after(outcome) == check_interval

\* Where the control task is suspended in an await.
Suspended == {"update_state", "push", "sleep", "sensor_sleep"}

\* Where the control task has ended.
Finished == {"returned", "raised", "cancelled"}

locals == <<config, temp_on, temp_off, current_temp, actual_power,
            time_restricted>>

(***************************************************************************)
(* shutdown(signum, frame): the handler of SIGINT and SIGTERM               *)
(***************************************************************************)
shutdown ==
    /\ running' = FALSE
    /\ UNCHANGED <<current_state, device, actuator, mainpc, pc, locals,
                   cyc, prev, disc, scen>>
    /\ UNCHANGED tvars

(***************************************************************************)
(* main                                                                    *)
(***************************************************************************)
DiscoveryOutcomes == {"bound", "no_devices", "scan_raises", "bind_raises"}

\* Faulty variant: the next devices are tried when a bind raises.
discovery_tries_next(scan_raises, n, bind_ok) ==
    IF scan_raises THEN "scan_raises"
    ELSE IF n = 0 THEN "no_devices"
    ELSE IF \E i \in 1..n : bind_ok[i] THEN "bound"
    ELSE "bind_raises"

\* Lines 91-110 of discover_and_bind: scan() raises or finds n devices;
\* only devices[0] is bound; bind_ok[i] tells whether binding device i works.
discovery_outcome(scan_raises, n, bind_ok) ==
    IF scan_raises THEN "scan_raises"
    ELSE IF n = 0 THEN "no_devices"
    ELSE IF bind_ok[1] THEN "bound"
    ELSE "bind_raises"

\* Lines 204-208: discover_and_bind, then create_task.
discover_and_bind ==
    /\ mainpc = "discover"
    /\ \E scan_raises \in BOOLEAN, n \in 0..MaxDevices :
         \E bind_ok \in [1..n -> BOOLEAN] :
           LET outcome == discovery_outcome(scan_raises, n, bind_ok) IN
           /\ outcome \in DiscoveryOutcomes
           /\ IF outcome = "bound"
              THEN mainpc' = "task_created" /\ pc' = "created"
              ELSE mainpc' = "no_device" /\ pc' = pc
           /\ disc' = [ scans |-> disc.scans + 1,
                        first_failed |-> \/ scan_raises
                                         \/ n = 0
                                         \/ ~bind_ok[1] ]
    /\ UNCHANGED <<running, current_state, device, actuator, locals,
                   cyc, prev, scen>>
    /\ UNCHANGED tvars

\* What control_task.cancel() does to the task: CancelledError is raised at
\* the await it is suspended in (or before its first step); it is not an
\* Exception, so neither `except Exception` catches it.
cancel(p) == IF p \in Suspended \cup {"created"} THEN "cancelled" ELSE p

cancel_cycle(c, p) ==
    [ c EXCEPT !.update = IF p = "update_state" THEN "cancelled" ELSE @,
               !.reported = IF p = "update_state" THEN FALSE ELSE @,
               !.push   = IF p = "push" THEN "cancelled" ELSE @ ]

\* Lines 210-213: `while running: await asyncio.sleep(1)`, then cancel().
main_poll ==
    /\ mainpc \in {"task_created", "main_sleep"}
    /\ pc \in Suspended \cup Finished \cup {"created"}
    /\ IF running
       THEN /\ mainpc' = "main_sleep"
            /\ UNCHANGED <<pc, cyc>>
       ELSE /\ mainpc' = "await_task"
            /\ pc' = cancel(pc)
            /\ cyc' = cancel_cycle(cyc, pc)
    /\ UNCHANGED <<running, current_state, device, actuator, locals, prev,
                   disc, scen>>
    /\ UNCHANGED tvars

\* Lines 214-219: `await control_task`; only CancelledError is caught.
main_await ==
    /\ mainpc = "await_task"
    /\ pc \in Finished
    /\ mainpc' = IF pc = "raised" THEN "raised" ELSE "done"
    /\ UNCHANGED <<running, current_state, device, actuator, pc, locals,
                   cyc, prev, disc, scen>>
    /\ UNCHANGED tvars

(***************************************************************************)
(* temperature_control_loop                                                *)
(***************************************************************************)
\* The control task runs only while main is suspended in its sleep.
TaskMayRun == mainpc = "main_sleep"

\* What the cycle that ends leaves for the next one to be compared with.
Summary ==
    IF cyc.decision = "none" THEN NoPrev
    ELSE [ valid |-> TRUE, temp |-> current_temp,
           on |-> temp_on, off |-> temp_off, power |-> actual_power,
           restricted |-> time_restricted, decision |-> cyc.decision,
           push |-> cyc.push ]

\* Faulty variant: `while True`, the flag is not looked at.
loop_test_ignores_running ==
    /\ TaskMayRun
    /\ pc \in {"created", "sleep", "sensor_sleep"}
    /\ pc' = "load_config"
    /\ prev' = Summary
    /\ cyc' = [ NoCycle EXCEPT
                  !.belief0 = current_state.power,
                  !.waited = IF pc = "created" THEN None ELSE cyc.slept ]
    /\ scen' = scen_cycle_start(scen)
    /\ UNCHANGED <<running, current_state, device, actuator, mainpc,
                   locals, disc>>
    /\ UNCHANGED tvars

\* Line 145: `while running`, on entry and after each sleep.
loop_test ==
    /\ TaskMayRun
    /\ pc \in {"created", "sleep", "sensor_sleep"}
    /\ IF running
       THEN /\ pc' = "load_config"
            /\ prev' = Summary
            /\ cyc' = [ NoCycle EXCEPT
                          !.belief0 = current_state.power,
                          !.waited = IF pc = "created" THEN None
                                     ELSE cyc.slept ]
            /\ scen' = scen_cycle_start(scen)
       ELSE /\ pc' = "returned"
            /\ UNCHANGED <<prev, cyc, scen>>
    /\ UNCHANGED <<running, current_state, device, actuator, mainpc,
                   locals, disc>>
    /\ UNCHANGED tvars

\* Lines 147-151: load_config(), then the two thresholds (KeyError when a
\* field is missing).
reload_config ==
    /\ TaskMayRun
    /\ pc = "load_config"
    /\ \E file \in ConfigFiles :
         LET c == load_config(file) IN
         /\ config' = c
         /\ cyc' = [ cyc EXCEPT !.load = IF file.kind = "json" THEN "read"
                                         ELSE "failed" ]
         /\ IF "temperature_on" \notin DOMAIN c
            THEN pc' = "raised" /\ UNCHANGED <<temp_on, temp_off>>
            ELSE IF "temperature_off" \notin DOMAIN c
            THEN /\ pc' = "raised"
                 /\ temp_on' = c.temperature_on
                 /\ UNCHANGED temp_off
            ELSE /\ pc' = "read_sensor"
                 /\ temp_on' = c.temperature_on
                 /\ temp_off' = c.temperature_off
    /\ UNCHANGED <<running, current_state, device, actuator, mainpc,
                   current_temp, actual_power, time_restricted, prev, disc,
                   scen>>
    /\ UNCHANGED tvars

\* Faulty variant: the `continue` of line 157 is missing.
after_sensor_no_continue(temp) == "update_state"

\* Where the loop goes after get_snmp_temperature() (lines 154-162).
after_sensor(temp) == IF temp = None THEN "sensor_sleep" ELSE "update_state"

\* Lines 153-162: get_snmp_temperature() returns a number or None; on None
\* the loop sleeps and continues, else it calls device.update_state().
read_sensor ==
    /\ TaskMayRun
    /\ pc = "read_sensor"
    /\ \E r \in Readings \cup {None} :
         /\ current_temp' = r
         /\ pc' = after_sensor(r)
         /\ cyc' = [ cyc EXCEPT
                       !.sensor = IF r = None THEN "fault" ELSE "ok",
                       !.update = IF after_sensor(r) = "update_state"
                                  THEN "inflight" ELSE @,
                       !.slept = IF after_sensor(r) = "sensor_sleep"
                                 THEN @ + wait_after("sensor_fault")
                                 ELSE @ ]
         /\ scen' = scen_sensor(scen, r)
    /\ UNCHANGED <<running, current_state, device, actuator, mainpc, config,
                   temp_on, temp_off, actual_power, time_restricted, prev,
                   disc>>
    /\ UNCHANGED tvars

\* Faulty variants: the stale device.power on a failed read; the cached
\* belief on a successful one.
reconcile_reads_device(belief_power, reported_power, read_ok) ==
    reported_power

reconcile_keeps_belief(belief_power, reported_power, read_ok) ==
    belief_power

\* Lines 161-168: the power the cycle decides with.
reconcile(belief_power, reported_power, read_ok) ==
    IF read_ok THEN reported_power ELSE belief_power

\* Line 162: the air conditioner answers the state request of
\* update_state() with the power it has then.
actuator_replies ==
    /\ pc = "update_state" /\ cyc.update = "inflight"
    /\ cyc' = [ cyc EXCEPT !.update = "replied",
                           !.reported = actuator.power ]
    /\ UNCHANGED <<running, current_state, device, actuator, mainpc, pc,
                   locals, prev, disc, scen>>
    /\ UNCHANGED tvars

\* Lines 162-163, 168: update_state() returns with the answer; device.power
\* is the answered power.
update_state_ok ==
    /\ TaskMayRun
    /\ pc = "update_state" /\ cyc.update = "replied"
    /\ device' = [ actuator EXCEPT !.power = cyc.reported ]
    /\ actual_power' = reconcile(current_state.power, cyc.reported, TRUE)
    /\ current_state' = [ current_state EXCEPT !.power = actual_power' ]
    /\ cyc' = [ cyc EXCEPT !.update = "ok" ]
    /\ pc' = "check_time"
    /\ UNCHANGED <<running, actuator, mainpc, config, temp_on, temp_off,
                   current_temp, time_restricted, prev, disc, scen>>
    /\ UNCHANGED tvars

\* Lines 164-168: update_state() raises, before the air conditioner
\* answered or after it did (the answer lost).
update_state_fails ==
    /\ TaskMayRun
    /\ pc = "update_state" /\ cyc.update \in {"inflight", "replied"}
    /\ actual_power' = reconcile(current_state.power, device.power, FALSE)
    /\ current_state' = [ current_state EXCEPT !.power = actual_power' ]
    /\ cyc' = [ cyc EXCEPT !.update = "failed", !.reported = FALSE ]
    /\ pc' = "check_time"
    /\ UNCHANGED <<running, device, actuator, mainpc, config, temp_on,
                   temp_off, current_temp, time_restricted, prev, disc,
                   scen>>
    /\ UNCHANGED tvars

\* Faulty variant: lines 118-119 are missing, only the power is set.
set_properties_power_only(dev, power, target) ==
    [ dev EXCEPT !.power = power ]

\* Lines 117-121 of set_ac_state: the properties set before the push.
set_properties(dev, power, target) ==
    IF power
    THEN [ power |-> TRUE, mode |-> "Cool", target_temperature |-> target ]
    ELSE [ dev EXCEPT !.power = FALSE ]

\* Lines 171-187: is_time_restricted(config) (KeyError, ValueError), the
\* decision, and set_ac_state up to its await of push_state_update().
decide_and_act ==
    /\ TaskMayRun
    /\ pc = "check_time"
    /\ \E t \in ClockTimes :
         IF is_time_restricted_raises(config)
            THEN /\ pc' = "raised"
                 /\ cyc' = [ cyc EXCEPT !.now = t ]
                 /\ scen' = NoScenario
                 /\ UNCHANGED <<time_restricted, device>>
            ELSE LET r == is_time_restricted(config, t)
                     d == decide(current_temp, temp_on, temp_off,
                                 actual_power, r)
                 IN  /\ time_restricted' = r
                     /\ pc' = IF d = "NoChange" THEN "sleep" ELSE "push"
                     /\ device' = IF d = "NoChange" THEN device
                                  ELSE set_properties(device, d = "TurnOn",
                                           current_state.target_temp)
                     /\ cyc' = [ cyc EXCEPT
                                   !.now = t,
                                   !.decision = d,
                                   !.pushed = IF d = "TurnOn" THEN "on"
                                              ELSE IF d = "TurnOff" THEN "off"
                                              ELSE "none",
                                   !.push = IF d = "NoChange" THEN "none"
                                            ELSE "inflight",
                                   !.pushes = IF d = "NoChange" THEN @
                                              ELSE @ + 1,
                                   !.slept = IF d = "NoChange"
                                             THEN @ + wait_after("no_change")
                                             ELSE @ ]
                     /\ scen' = scen_decided(scen,
                                    scenario_matches(scen, config, t,
                                                     current_temp, cyc),
                                    d, current_state.power)
    /\ UNCHANGED <<running, current_state, actuator, mainpc, config, temp_on,
                   temp_off, current_temp, actual_power, prev, disc>>
    /\ UNCHANGED tvars

\* Faulty variant: line 123 is missing, the belief is never set by a push.
belief_never_set(belief_power, pushed_power, push_ok) ==
    belief_power

\* Faulty variant: the belief is set before the push is known to succeed.
belief_set_before_push(belief_power, pushed_power, push_ok) ==
    pushed_power

\* Line 123: the belief after push_state_update() returned or raised.
belief_after_push(belief_power, pushed_power, push_ok) ==
    IF push_ok THEN pushed_power ELSE belief_power

\* Line 122, while the task is suspended in push_state_update(): the air
\* conditioner takes the pushed properties, all three after a TurnOn, the
\* power alone after a TurnOff.
actuator_applies ==
    /\ pc = "push"
    /\ cyc.push = "inflight"
    /\ actuator' = IF device.power THEN device
                   ELSE [ actuator EXCEPT !.power = FALSE ]
    /\ cyc' = [ cyc EXCEPT !.push = "applied" ]
    /\ UNCHANGED <<running, current_state, device, mainpc, pc, locals,
                   prev, disc, scen>>
    /\ UNCHANGED tvars

\* Lines 122-124: push_state_update() returns with the air conditioner's
\* reply.
push_ok ==
    /\ TaskMayRun
    /\ pc = "push"
    /\ cyc.push = "applied"
    /\ current_state' = [ current_state EXCEPT !.power =
                            belief_after_push(@, device.power, TRUE) ]
    /\ cyc' = [ cyc EXCEPT !.push = "ok",
                           !.slept = @ + wait_after("pushed") ]
    /\ scen' = scen_pushed(scen, TRUE, current_state'.power)
    /\ pc' = "sleep"
    /\ UNCHANGED <<running, device, actuator, mainpc, locals, prev, disc>>
    /\ UNCHANGED tvars

\* Lines 126-127: push_state_update() raises, before the air conditioner
\* took the pushed properties or, its reply lost, after.
push_fails ==
    /\ TaskMayRun
    /\ pc = "push"
    /\ cyc.push \in {"inflight", "applied"}
    /\ current_state' = [ current_state EXCEPT !.power =
                            belief_after_push(@, device.power, FALSE) ]
    /\ cyc' = [ cyc EXCEPT !.push = "failed",
                           !.slept = @ + wait_after("push_failed") ]
    /\ scen' = scen_pushed(scen, FALSE, current_state'.power)
    /\ pc' = "sleep"
    /\ UNCHANGED <<running, device, actuator, mainpc, locals, prev, disc>>
    /\ UNCHANGED tvars

(***************************************************************************)
(* The air conditioner is switched by something else (its remote control)  *)
(***************************************************************************)
out_of_band ==
    /\ mainpc \in {"task_created", "main_sleep"}
    /\ actuator' = [ actuator EXCEPT !.power = ~@ ]
    /\ UNCHANGED <<running, current_state, device, mainpc, pc, locals, cyc,
                   prev, disc, scen>>
    /\ UNCHANGED tvars

Next ==
    \/ shutdown
    \/ discover_and_bind
    \/ main_poll
    \/ main_await
    \/ loop_test
    \/ reload_config
    \/ read_sensor
    \/ actuator_replies
    \/ update_state_ok
    \/ update_state_fails
    \/ decide_and_act
    \/ actuator_applies
    \/ push_ok
    \/ push_fails
    \/ out_of_band

Spec == Init /\ [][Next]_vars

(***************************************************************************)
(* scripts/test.py                                                         *)
(***************************************************************************)
\* test.py is started; controller.py is not.
t_StartInit == t_Init /\ c_Init /\ ~actuator.power

\* device.mode.name.lower() of line 65.
t_lower(mode) ==
    CASE mode = "Auto" -> "auto"
      [] mode = "Cool" -> "cool"
      [] mode = "Dry"  -> "dry"
      [] mode = "Fan"  -> "fan"
      [] mode = "Heat" -> "heat"

\* Lines 93-97: the signal handler.
t_shutdown ==
    /\ t_running' = FALSE
    /\ UNCHANGED <<t_current_state, t_device, t_actuator, t_mainpc,
                   t_syncpc, t_ctlpc, t_new_power, t_read, t_push, t_done>>
    /\ UNCHANGED cvars

\* Lines 107-112: discover_and_bind (lines 23-44), then main calls
\* sync_state, which awaits device.update_state() (line 50).
t_discover_and_bind ==
    /\ t_mainpc = "discover"
    /\ \E scan_raises \in BOOLEAN, n \in 0..MaxDevices :
         \E bind_ok \in [1..n -> BOOLEAN] :
           IF discovery_outcome(scan_raises, n, bind_ok) = "bound"
           THEN /\ t_mainpc' = "initial_sync"
                /\ t_read' = [ phase |-> "sent", power |-> FALSE ]
           ELSE /\ t_mainpc' = "no_device"
                /\ UNCHANGED t_read
    /\ UNCHANGED <<t_running, t_current_state, t_device, t_actuator,
                   t_syncpc, t_ctlpc, t_new_power, t_push, t_done>>
    /\ UNCHANGED cvars

\* The air conditioner answers the state request with its state.
t_actuator_replies ==
    /\ t_read.phase = "sent"
    /\ t_read' = [ phase |-> "replied", power |-> t_actuator.power ]
    /\ UNCHANGED <<t_running, t_current_state, t_device, t_actuator,
                   t_mainpc, t_syncpc, t_ctlpc, t_new_power, t_push, t_done>>
    /\ UNCHANGED cvars

\* Where the caller of sync_state goes on: main creates the two tasks
\* (lines 116-117) and polls; periodic_sync tests `while running`
\* (line 73) and sleeps (line 74).
t_after_sync ==
    IF t_mainpc = "initial_sync"
    THEN /\ t_mainpc' = "main_sleep"
         /\ t_syncpc' = "created"
         /\ t_ctlpc' = "created"
    ELSE /\ t_syncpc' = IF t_running THEN "sleep" ELSE "returned"
         /\ UNCHANGED <<t_mainpc, t_ctlpc>>

\* Lines 62-66: current_state.update(...) from the device's properties.
t_synced_state(belief, dev) ==
    [ power |-> dev.power, temp |-> dev.target_temperature,
      mode |-> t_lower(dev.mode) ]

\* Lines 50-66: update_state() returns with the answer; the device's
\* properties are the answered ones and current_state is set from them.
t_update_state_ok ==
    /\ t_read.phase = "replied"
    /\ t_mainpc = "initial_sync" \/ t_mainpc = "main_sleep"
    /\ t_device' = [ t_actuator EXCEPT !.power = t_read.power ]
    /\ t_current_state' = t_synced_state(t_current_state, t_device')
    /\ t_read' = NoCall
    /\ t_done' = TRUE
    /\ t_after_sync
    /\ UNCHANGED <<t_running, t_actuator, t_new_power, t_push>>
    /\ UNCHANGED cvars

\* Lines 68-69: update_state() raises; the exception is logged.
t_update_state_fails ==
    /\ t_read.phase \in {"sent", "replied"}
    /\ t_mainpc = "initial_sync" \/ t_mainpc = "main_sleep"
    /\ t_read' = NoCall
    /\ t_done' = FALSE
    /\ t_after_sync
    /\ UNCHANGED <<t_running, t_current_state, t_device, t_actuator,
                   t_new_power, t_push>>
    /\ UNCHANGED cvars

\* Line 73 on entry: `while running`, then the sleep of line 74.
t_periodic_sync_start ==
    /\ t_mainpc = "main_sleep"
    /\ t_syncpc = "created"
    /\ t_syncpc' = IF t_running THEN "sleep" ELSE "returned"
    /\ UNCHANGED <<t_running, t_current_state, t_device, t_actuator,
                   t_mainpc, t_ctlpc, t_new_power, t_read, t_push, t_done>>
    /\ UNCHANGED cvars

\* Lines 74-75 and 50: the sleep ends, sync_state awaits update_state().
t_periodic_sync_wake ==
    /\ t_mainpc = "main_sleep"
    /\ t_syncpc = "sleep"
    /\ t_syncpc' = "update_state"
    /\ t_read' = [ phase |-> "sent", power |-> FALSE ]
    /\ UNCHANGED <<t_running, t_current_state, t_device, t_actuator,
                   t_mainpc, t_ctlpc, t_new_power, t_push, t_done>>
    /\ UNCHANGED cvars

\* Lines 80-85: `while running`, the toggled power is set on the device
\* and push_state_update() is awaited.
t_toggle ==
    /\ t_mainpc = "main_sleep"
    /\ t_ctlpc \in {"created", "sleep"}
    /\ IF t_running
       THEN /\ t_new_power' = ~t_current_state.power
            /\ t_device' = [ t_device EXCEPT !.power = t_new_power' ]
            /\ t_push' = [ phase |-> "sent", power |-> t_new_power' ]
            /\ t_ctlpc' = "push"
       ELSE /\ t_ctlpc' = "returned"
            /\ UNCHANGED <<t_new_power, t_device, t_push>>
    /\ UNCHANGED <<t_running, t_current_state, t_actuator, t_mainpc,
                   t_syncpc, t_read, t_done>>
    /\ UNCHANGED cvars

\* The air conditioner takes the pushed power.
t_actuator_applies ==
    /\ t_push.phase = "sent"
    /\ t_actuator' = [ t_actuator EXCEPT !.power = t_push.power ]
    /\ t_push' = [ t_push EXCEPT !.phase = "applied" ]
    /\ UNCHANGED <<t_running, t_current_state, t_device, t_mainpc,
                   t_syncpc, t_ctlpc, t_new_power, t_read, t_done>>
    /\ UNCHANGED cvars

\* Lines 85-87 and 91: push_state_update() returns, the belief is set.
t_push_ok ==
    /\ t_mainpc = "main_sleep"
    /\ t_ctlpc = "push" /\ t_push.phase = "applied"
    /\ t_current_state' = [ t_current_state EXCEPT !.power = t_new_power ]
    /\ t_push' = NoCall
    /\ t_ctlpc' = "sleep"
    /\ t_done' = TRUE
    /\ UNCHANGED <<t_running, t_device, t_actuator, t_mainpc, t_syncpc,
                   t_new_power, t_read>>
    /\ UNCHANGED cvars

\* Lines 88-91: push_state_update() raises, before the air conditioner took
\* the power or after it did (its answer lost).
t_push_fails ==
    /\ t_mainpc = "main_sleep"
    /\ t_ctlpc = "push" /\ t_push.phase \in {"sent", "applied"}
    /\ t_push' = NoCall
    /\ t_ctlpc' = "sleep"
    /\ t_done' = FALSE
    /\ UNCHANGED <<t_running, t_current_state, t_device, t_actuator,
                   t_mainpc, t_syncpc, t_new_power, t_read>>
    /\ UNCHANGED cvars

\* What task.cancel() does to a task of test.py.
t_cancel(p) ==
    IF p \in {"created", "sleep", "update_state", "push"} THEN "cancelled"
    ELSE p

\* Lines 120-125: `while running: await asyncio.sleep(1)`, then both tasks
\* are cancelled.
t_main_poll ==
    /\ t_mainpc = "main_sleep"
    /\ IF t_running
       THEN UNCHANGED <<t_mainpc, t_syncpc, t_ctlpc, t_read, t_push>>
       ELSE /\ t_mainpc' = "await_tasks"
            /\ t_syncpc' = t_cancel(t_syncpc)
            /\ t_ctlpc' = t_cancel(t_ctlpc)
            /\ t_read' = NoCall
            /\ t_push' = NoCall
    /\ UNCHANGED <<t_running, t_current_state, t_device, t_actuator,
                   t_new_power, t_done>>
    /\ UNCHANGED cvars

\* Lines 126-132: the tasks are awaited.
t_main_await ==
    /\ t_mainpc = "await_tasks"
    /\ t_syncpc \in {"returned", "cancelled"}
    /\ t_ctlpc \in {"returned", "cancelled"}
    /\ t_mainpc' = "done"
    /\ UNCHANGED <<t_running, t_current_state, t_device, t_actuator,
                   t_syncpc, t_ctlpc, t_new_power, t_read, t_push, t_done>>
    /\ UNCHANGED cvars

t_Next ==
    \/ t_shutdown
    \/ t_discover_and_bind
    \/ t_actuator_replies
    \/ t_update_state_ok
    \/ t_update_state_fails
    \/ t_periodic_sync_start
    \/ t_periodic_sync_wake
    \/ t_toggle
    \/ t_actuator_applies
    \/ t_push_ok
    \/ t_push_fails
    \/ t_main_poll
    \/ t_main_await

TestSpec == t_StartInit /\ [][t_Next]_vars

(***************************************************************************)
(* Properties                                                              *)
(***************************************************************************)
\* The cycle in progress has evaluated its decision (lines 177-187).
Decided == cyc.decision # "none"

\* Membership of t in the window from s to e, both inclusive, wrapping
\* midnight when s > e.
InWindow(t, s, e) ==
    IF s > e THEN t >= s \/ t <= e ELSE s <= t /\ t <= e

\* The times of day the restricted_time fields of the configurations stand
\* for.
WindowTimes ==
    [ w \in { c.restricted_time :
                c \in { j \in JsonConfigs \cup {DefaultConfig} :
                           "restricted_time" \in DOMAIN j } } |->
        [ start |-> strptime(w.start), end |-> strptime(w.end) ] ]

\* The clock read of this cycle is inside the restricted window of the
\* configuration loaded in this cycle.
Restricted ==
    InWindow(cyc.now, WindowTimes[config.restricted_time].start,
             WindowTimes[config.restricted_time].end)

\* C1: in a cycle that evaluated its decision, a power-on push is issued if
\* and only if the reading exceeds temperature_on, the reconciled power is
\* off and the clock is outside the restricted window; inside the window no
\* power-on push is issued whatever the reading.
C1_TurnOnIff ==
    /\ Decided =>
         ( cyc.pushed = "on" <=>
             current_temp > temp_on /\ ~actual_power /\ ~Restricted )
    /\ cyc.pushed = "on" => Decided /\ cyc.push # "none" /\ ~Restricted

C1_Witness ==
    /\ cyc.pushed = "on" /\ cyc.push = "inflight" /\ pc = "push"
    /\ device.power /\ current_temp > temp_on /\ ~Restricted

\* C2: in a cycle that evaluated its decision, a power-off push is issued if
\* and only if the reconciled power is on and the reading is below
\* temperature_off or the clock is inside the restricted window.
C2_TurnOffIff ==
    /\ Decided =>
         ( cyc.pushed = "off" <=>
             actual_power /\ (current_temp < temp_off \/ Restricted) )
    /\ cyc.pushed = "off" => Decided /\ cyc.push # "none"

C2_Witness ==
    /\ cyc.pushed = "off" /\ cyc.push = "inflight" /\ pc = "push"
    /\ ~device.power /\ current_temp >= temp_off /\ Restricted

\* C3: a reading inside the band, endpoints included, outside the restricted
\* window, yields NoChange whatever the reconciled power: no push is invoked
\* and the belief's power stays the reconciled power.
C3_BandIsInert ==
    ( /\ Decided
      /\ temp_off <= current_temp /\ current_temp <= temp_on
      /\ ~Restricted )
    => /\ cyc.decision = "NoChange"
       /\ cyc.pushed = "none" /\ cyc.push = "none"
       /\ pc # "push"
       /\ current_state.power = actual_power

C3_Witness ==
    /\ Decided /\ pc = "sleep"
    /\ current_temp = temp_on /\ ~actual_power /\ ~Restricted
    /\ cyc.decision = "NoChange"

\* The examples of the restricted window: 21:00-10:00 and 13:00-15:00.
WindowExamples ==
    /\ is_time_restricted(DefaultConfig, TimeOfDay(23, 0, 0))
    /\ ~is_time_restricted(DefaultConfig, TimeOfDay(12, 0, 0))
    /\ is_time_restricted(Cfg(240, 225, HHMM("1", "3", "0", "0"),
                              HHMM("1", "5", "0", "0")), TimeOfDay(14, 0, 0))
    /\ ~is_time_restricted(Cfg(240, 225, HHMM("1", "3", "0", "0"),
                               HHMM("1", "5", "0", "0")), TimeOfDay(16, 0, 0))

\* C4: the restricted status a cycle decides with is the membership of the
\* clock read in that cycle in the configured window, endpoints included,
\* wrapping midnight when start > end; 23:00 is inside 21:00-10:00 and 12:00
\* is not, 14:00 is inside 13:00-15:00 and 16:00 is not.
C4_WindowMembership ==
    /\ Decided => cyc.now \in ClockTimes /\ time_restricted = Restricted
    /\ WindowExamples

C4_Witness ==
    /\ Decided /\ time_restricted
    /\ config = DefaultConfig /\ cyc.now = TimeOfDay(23, 0, 0)
    /\ prev.valid /\ ~prev.restricted

\* C5: a cycle whose sensor read returned None calls neither update_state nor
\* push_state_update, evaluates no decision, changes neither the belief nor
\* the device, and waits in the sleep of line 156, from which the loop goes
\* on to the next cycle unless the process is shutting down.
C5_SensorFaultInv ==
    cyc.sensor = "fault" =>
        /\ pc \in {"sensor_sleep", "returned", "cancelled"}
        /\ cyc.update = "none" /\ cyc.decision = "none"
        /\ cyc.pushed = "none" /\ cyc.push = "none"
        /\ current_state.power = cyc.belief0

C5_SensorFaultStep ==
    /\ cyc'.sensor = "fault" =>
         /\ current_state' = current_state
         /\ device' = device
         /\ actuator' = actuator \/ out_of_band
    /\ (cyc.sensor = "fault" /\ pc = "sensor_sleep" /\ pc' # pc) =>
         \/ running /\ pc' = "load_config"
         \/ ~running /\ pc' \in {"returned", "cancelled"}

C5_SensorFault == [] C5_SensorFaultInv /\ [][C5_SensorFaultStep]_vars

C5_Witness ==
    /\ cyc.sensor = "fault" /\ pc = "sensor_sleep"
    /\ cyc.belief0 /\ current_state.power /\ ~actuator.power

\* C6: when update_state raises, the power the cycle decides with is the
\* belief's power from before the cycle, the belief keeps that value unless
\* a later push of this cycle succeeds, and the cycle goes on to its
\* decision.
C6_ReadFaultInv ==
    cyc.update = "failed" =>
        /\ actual_power = cyc.belief0
        /\ cyc.push # "ok" => current_state.power = cyc.belief0
        /\ Decided =>
             cyc.decision = decide(current_temp, temp_on, temp_off,
                                   cyc.belief0, Restricted)

C6_ReadFaultStep ==
    (pc = "update_state" /\ cyc'.update = "failed") =>
        /\ pc' = "check_time"
        /\ current_state' = current_state

C6_ReadFault == [] C6_ReadFaultInv /\ [][C6_ReadFaultStep]_vars

C6_Witness ==
    /\ cyc.update = "failed" /\ Decided
    /\ cyc.belief0 /\ ~device.power /\ ~actuator.power
    /\ cyc.decision = "TurnOff"

\* C7: when update_state succeeds, the belief's power is overwritten with
\* the reported power before the decision, also when it differs from the
\* belief held before; the decision uses the reported power and the cycle
\* goes on.
C7_ReconcileInv ==
    cyc.update = "ok" =>
        /\ actual_power = cyc.reported
        /\ cyc.push # "ok" => current_state.power = cyc.reported
        /\ Decided =>
             cyc.decision = decide(current_temp, temp_on, temp_off,
                                   cyc.reported, Restricted)

C7_ReconcileStep ==
    /\ (cyc.update = "inflight" /\ cyc'.update = "replied") =>
          cyc'.reported = actuator.power
    /\ (pc = "update_state" /\ cyc'.update = "ok") =>
          /\ cyc.update = "replied"
          /\ pc' = "check_time"
          /\ current_state'.power = cyc.reported
          /\ device'.power = cyc.reported
          /\ cyc'.reported = cyc.reported

C7_Reconcile == [] C7_ReconcileInv /\ [][C7_ReconcileStep]_vars

C7_Witness ==
    /\ cyc.update = "ok" /\ Decided
    /\ cyc.reported # cyc.belief0
    /\ cyc.reported /\ cyc.decision = "TurnOff"

\* The cycle in progress reconciled to the power the previous cycle decided
\* with: its read failed, or it reported that same power.
SameReport ==
    \/ cyc.update = "failed"
    \/ cyc.update = "ok" /\ cyc.reported = prev.power

\* The belief is changed by a push only when it succeeded, and a failed push
\* does not end the loop.
PushAndBelief ==
    /\ cyc.push = "failed" =>
         /\ current_state.power = actual_power
         /\ pc \in {"sleep", "returned", "cancelled"}
    /\ cyc.push = "ok" => current_state.power = (cyc.pushed = "on")
    /\ cyc.push \in {"inflight", "applied", "cancelled"} =>
         current_state.power = actual_power

\* C8 as stated: after a failed push, the next cycle with the same reading,
\* restricted status and reported actuator state takes the same decision.
C8_AsStated ==
    /\ PushAndBelief
    /\ ( /\ prev.valid /\ prev.push = "failed" /\ Decided
         /\ current_temp = prev.temp
         /\ time_restricted = prev.restricted
         /\ SameReport )
       => cyc.decision = prev.decision

\* C8 amended: ... and the same thresholds loaded from the configuration.
C8_FailedPushRetried ==
    /\ PushAndBelief
    /\ ( /\ prev.valid /\ prev.push = "failed" /\ Decided
         /\ current_temp = prev.temp
         /\ time_restricted = prev.restricted
         /\ temp_on = prev.on /\ temp_off = prev.off
         /\ SameReport )
       => /\ cyc.decision = prev.decision
          /\ cyc.decision \in {"TurnOn", "TurnOff"}
          /\ cyc.push # "none"

C8_Witness ==
    /\ prev.valid /\ prev.push = "failed" /\ prev.decision = "TurnOn"
    /\ Decided /\ cyc.update = "failed"
    /\ current_temp = prev.temp /\ time_restricted = prev.restricted
    /\ temp_on = prev.on /\ temp_off = prev.off
    /\ cyc.decision = "TurnOn" /\ cyc.push = "inflight"

\* C9: once the control loop has started, no fault ends it: the task ends
\* only after a shutdown signal, and never by an exception.
C9_NoFaultEndsLoop ==
    /\ pc # "raised"
    /\ pc \in Finished => ~running

\* C10: an actuator call in flight when shutdown is signalled finishes; the
\* task is never cancelled inside update_state or push_state_update.
C10_CallInFlightFinishes ==
    cyc.update # "cancelled" /\ cyc.push # "cancelled"

\* C11: after a shutdown signal the control task stops and main completes
\* with 'Clean shutdown complete': main never ends by an exception instead.
C11_MainCompletes ==
    mainpc # "raised"

\* C12: when the scan raises or finds no device, or the bind of the first
\* device found raises, main returns without creating the control task: no
\* sensor read, no actuator call and no change of the belief ever happens,
\* no other device found is tried and the discovery is run once only.
C12_DiscoveryFailure ==
    /\ disc.scans <= 1
    /\ mainpc = "no_device" <=> disc.first_failed
    /\ disc.first_failed =>
         /\ pc = "not_created"
         /\ cyc = NoCycle /\ prev = NoPrev
         /\ config = Unbound /\ current_temp = None
         /\ current_state = [ power |-> FALSE, target_temp |-> 220 ]
         /\ device.mode = "Unknown"

C12_Witness ==
    /\ disc.first_failed /\ disc.scans = 1
    /\ mainpc = "no_device" /\ pc = "not_created"

\* The cycle in progress decided with the reading, the thresholds and the
\* restricted status of the cycle before it, after an update_state that
\* succeeded and reported the power that cycle left: the power it pushed
\* with success or, when it pushed nothing, the power it decided with.
SameInputs ==
    /\ prev.valid /\ Decided
    /\ current_temp = prev.temp
    /\ temp_on = prev.on /\ temp_off = prev.off
    /\ time_restricted = prev.restricted

ReportsLastPushed ==
    /\ cyc.update = "ok"
    /\ \/ prev.push = "ok" /\ cyc.reported = (prev.decision = "TurnOn")
       \/ prev.push = "none" /\ cyc.reported = prev.power

\* C13: a cycle with the inputs of the cycle before it, whose push
\* succeeded and whose pushed power the air conditioner then reports,
\* decides NoChange: no second push, and the belief's power stays.
C13_Idempotent ==
    (SameInputs /\ ReportsLastPushed /\ prev.push = "ok") =>
        /\ cyc.decision = "NoChange"
        /\ cyc.pushed = "none" /\ cyc.push = "none"
        /\ current_state.power = cyc.reported

IsPrefix(a, b) == Len(a) <= Len(b) /\ a = SubSeq(b, 1, Len(a))

\* C14: with the default configuration, the clock at 14:00, an initial
\* belief of off, an air conditioner that reports what was last pushed and
\* the readings 25.0, 23.0, 22.0, the decisions of the three cycles are
\* TurnOn, NoChange, TurnOff and the belief's power after them is true,
\* true, false.
C14_Scenario ==
    scen.live =>
        /\ IsPrefix(scen.decisions, <<"TurnOn", "NoChange", "TurnOff">>)
        /\ IsPrefix(scen.beliefs, <<TRUE, TRUE, FALSE>>)
        /\ Len(scen.decisions) - Len(scen.beliefs) \in {0, 1}

C14_Witness ==
    /\ scen.live
    /\ scen.decisions = <<"TurnOn", "NoChange", "TurnOff">>
    /\ scen.beliefs = <<TRUE, TRUE, FALSE>>
    /\ pc = "sleep" /\ ~current_state.power /\ ~actuator.power

\* The decision, for every reading and every pair of thresholds among the
\* readings with on >= off, equal ones included: deciding again with the
\* power the first decision leaves gives NoChange.
DecideSettles ==
    \A t \in Readings, on \in Readings, off \in Readings,
       p \in BOOLEAN, r \in BOOLEAN :
        on >= off =>
            LET d  == decide(t, on, off, p, r)
                p2 == IF d = "TurnOn" THEN TRUE
                      ELSE IF d = "TurnOff" THEN FALSE ELSE p
            IN  decide(t, on, off, p2, r) = "NoChange"

\* C18: with temperature_on >= temperature_off, a cycle that follows a
\* decided cycle with the same reading, thresholds and restricted status,
\* every call succeeding and the air conditioner reporting the power the
\* cycle before left, is NoChange, whether that cycle pushed or not: a run
\* of such cycles pushes at most once, in its first cycle.  Whatever the
\* thresholds, the decision is the one of the two tests of lines 177-187.
C18_NoChatter ==
    /\ DecideSettles
    /\ (SameInputs /\ ReportsLastPushed /\ temp_on >= temp_off) =>
         /\ cyc.decision = "NoChange"
         /\ cyc.pushed = "none" /\ cyc.push = "none"
         /\ current_state.power = cyc.reported
    /\ Decided =>
         cyc.decision =
           IF current_temp > temp_on /\ ~actual_power /\ ~Restricted
           THEN "TurnOn"
           ELSE IF (current_temp < temp_off \/ Restricted) /\ actual_power
           THEN "TurnOff"
           ELSE "NoChange"

C18_Witness ==
    /\ SameInputs /\ ReportsLastPushed /\ temp_on >= temp_off
    /\ prev.decision = "TurnOn" /\ prev.push = "ok"
    /\ current_temp > temp_on /\ ~time_restricted
    /\ cyc.decision = "NoChange" /\ pc = "sleep"

\* C19: the belief's target temperature stays 22.0 in every cycle; a
\* TurnOn push that succeeds leaves the air conditioner in mode Cool with
\* that target temperature, a TurnOff push that succeeds changes its power
\* only; reconciliation changes at most the belief's power.
C19_TargetInv ==
    /\ current_state.target_temp = 220
    /\ (cyc.pushed = "on" /\ cyc.push = "ok") =>
         /\ actuator.mode = "Cool"
         /\ actuator.target_temperature = current_state.target_temp

C19_TargetStep ==
    /\ current_state'.target_temp = current_state.target_temp
    /\ (cyc.push = "inflight" /\ cyc'.push = "applied") =>
         actuator' = IF cyc.pushed = "on"
                     THEN [ power |-> TRUE, mode |-> "Cool",
                            target_temperature |-> 220 ]
                     ELSE [ actuator EXCEPT !.power = FALSE ]
    /\ (actuator'.mode # actuator.mode
          \/ actuator'.target_temperature # actuator.target_temperature) =>
         cyc.pushed = "on" /\ cyc.push = "inflight" /\ cyc'.push = "applied"
    /\ cyc'.push = "ok" => cyc.push \in {"applied", "ok"}

C19_TargetTemperature == [] C19_TargetInv /\ [][C19_TargetStep]_vars

C19_Witness ==
    /\ cyc.pushed = "off" /\ cyc.push = "ok" /\ pc = "sleep"
    /\ actuator = [ power |-> FALSE, mode |-> "Cool",
                    target_temperature |-> 220 ]
    /\ prev.valid /\ prev.decision = "TurnOn" /\ prev.push = "ok"

\* C15: the decision of a cycle is taken with the thresholds and the window
\* of the configuration load_config returned in that same cycle; the
\* configuration and the thresholds change in that step only, so a change
\* of the file is used by the next cycle; when open or json.load raised the
\* cycle has temperature_on 24.0, temperature_off 22.5 and the window
\* 21:00-10:00.
C15_ConfigInv ==
    /\ cyc.load = "failed" =>
         config = [ temperature_on  |-> 240,
                    temperature_off |-> 225,
                    restricted_time |->
                        [ start |-> <<"2", "1", ":", "0", "0">>,
                          end   |-> <<"1", "0", ":", "0", "0">> ] ]
    /\ cyc.load = "read" => config \in JsonConfigs
    /\ cyc.sensor # "none" =>
         /\ cyc.load # "none"
         /\ temp_on = config.temperature_on
         /\ temp_off = config.temperature_off
    /\ Decided =>
         /\ time_restricted = Restricted
         /\ cyc.decision = decide(current_temp, config.temperature_on,
                                  config.temperature_off, actual_power,
                                  Restricted)

C15_ConfigStep ==
    /\ (config' # config \/ temp_on' # temp_on \/ temp_off' # temp_off) =>
         pc = "load_config" /\ cyc.load = "none" /\ cyc'.load # "none"
    /\ (cyc.load # "none" /\ cyc'.load = "none") => pc' = "load_config"
    /\ (pc = "load_config" /\ pc' # pc) => cyc'.load # "none"

C15_ConfigPerCycle == [] C15_ConfigInv /\ [][C15_ConfigStep]_vars

C15_Witness ==
    /\ prev.valid /\ prev.on = 250 /\ prev.decision = "NoChange"
    /\ Decided /\ cyc.load = "failed" /\ temp_on = 240 /\ temp_off = 225
    /\ current_temp = prev.temp /\ actual_power = prev.power
    /\ time_restricted = prev.restricted
    /\ cyc.decision = "TurnOn"

\* The control task has ended: no sensor read, actuator call or change of
\* the belief follows.
StoppedIsFinal ==
    pc \in Finished =>
        /\ pc' = pc /\ cyc' = cyc /\ prev' = prev
        /\ current_state' = current_state /\ device' = device
        /\ UNCHANGED locals
        /\ actuator' = actuator \/ out_of_band

\* C16 as stated: once running is False no configuration reload and no
\* sensor read begins, and a stopped control loop does no further I/O.
C16_AsStatedStep ==
    /\ ~running => ~(pc \in {"load_config", "read_sensor"} /\ pc' # pc)
    /\ StoppedIsFinal

C16_AsStated == [][C16_AsStatedStep]_vars

\* C16 amended: once running is False the test of line 145 never passes
\* again; the cycle that had passed it goes on; a stopped control loop does
\* no further I/O.
C16_NoNewCycleStep ==
    /\ (~running /\ pc \in {"created", "sleep", "sensor_sleep"}) =>
         pc' \in {pc, "returned", "cancelled"}
    /\ (pc' = "load_config" /\ pc # pc') =>
         running /\ pc \in {"created", "sleep", "sensor_sleep"}
    /\ StoppedIsFinal

C16_NoNewCycle == [][C16_NoNewCycleStep]_vars

C16_Witness ==
    /\ ~running /\ pc = "returned" /\ mainpc = "main_sleep"
    /\ cyc.sensor = "ok" /\ cyc.push = "ok"

\* The cycle in progress has ended in its wait, or the task ended after it.
CycleEnded ==
    \/ cyc.sensor = "fault"
    \/ cyc.decision = "NoChange"
    \/ cyc.push \in {"ok", "failed"}

\* C17: one cycle runs at a time; a cycle that ended in a sensor fault, a
\* read fault, a failed push, NoChange or a successful push begins exactly
\* one sleep of check_interval seconds, and no cycle but the first begins
\* without the cycle before it having slept check_interval seconds; a
\* cycle calls push_state_update at most once.
C17_CadenceInv ==
    /\ cyc.waited \in {None, check_interval}
    /\ cyc.slept = IF CycleEnded THEN check_interval ELSE 0
    /\ pc \in {"sleep", "sensor_sleep"} => CycleEnded
    /\ cyc.pushes = IF cyc.pushed = "none" THEN 0 ELSE 1

C17_CadenceStep ==
    /\ (pc' = "load_config" /\ pc # pc') =>
         /\ \/ pc = "created" /\ cyc'.waited = None
            \/ /\ pc \in {"sleep", "sensor_sleep"}
               /\ CycleEnded /\ cyc'.waited = check_interval
         /\ cyc'.slept = 0 /\ cyc'.pushes = 0
    /\ (pc' = "update_state" /\ pc # pc') => pc = "read_sensor"
    /\ cyc'.pushes > cyc.pushes => pc = "check_time" /\ pc' = "push"

C17_Cadence == [] C17_CadenceInv /\ [][C17_CadenceStep]_vars

C17_Witness ==
    /\ cyc.waited = check_interval /\ cyc.update = "failed"
    /\ cyc.push = "failed" /\ cyc.slept = check_interval /\ pc = "sleep"
    /\ prev = NoPrev

\* test.py: no call is in flight and some sync or push has succeeded.
t_Quiet ==
    /\ t_mainpc = "main_sleep"
    /\ t_read = NoCall /\ t_push = NoCall
    /\ t_done

\* C20: in test.py an update_state() and a push_state_update() are never
\* in flight at the same time, and when no call is in flight after a
\* successful one the belief's power is the air conditioner's power.
C20_Serialized ==
    /\ ~(t_read.phase # "none" /\ t_push.phase # "none")
    /\ t_Quiet => t_current_state.power = t_actuator.power

=============================================================================
